---- MODULE Spec2Model ----
(***************************************************************************)
(* wireguardsim.py: the topology compiler.  main() loads a topology        *)
(* (nodes, ports, links), builds one node object per node, evaluates the   *)
(* generators of the six setup phases, drains them into the setup script,  *)
(* then drains the clean_ns generators into the cleanup script and writes  *)
(* both scripts.                                                           *)
(*                                                                         *)
(* A command line is a record [ns, op, a, b]:                              *)
(*   ns  the namespace of the "ip netns exec <ns> " prefix, NoNs if none   *)
(*   op  the fixed words of the command                                    *)
(*   a,b the interpolated fields in the order the text shows them          *)
(***************************************************************************)
EXTENDS Integers, Sequences, FiniteSets, TLC

\* ---------------------------------------------------------------- bounds
MaxNodes == 2
MaxPorts == 2
MaxLinks == 2

\* ------------------------------------------------------ absent YAML keys
NoPort    == -1            \* link endpoint without 'port': .get('port') is None
NoType    == "<no type>"   \* node without 'type'
NoGateway == "<no gateway>"\* port without 'gateway': .get('gateway') is None
NoAddress == "<no ip>"     \* port without 'ip_address'
NoNs      == "<host>"      \* command not wrapped in ip netns exec

\* ------------------------------------------------------------ topologies
NodeNames == {"a", "b"}
NodeTypes == {"router", "host", "cloud", NoType}
Addresses == {"10.0.0.1/24"}
Gateways  == {"10.0.0.254"}

SeqsUpTo(S, n) == UNION {[1..k -> S] : k \in 0..n}

Ports ==
    [ip_address : Addresses, gateway : Gateways \cup {NoGateway}, masquerade : BOOLEAN]
    \cup [ip_address : {NoAddress}, gateway : {NoGateway}, masquerade : {FALSE}]

Nodes == [name : NodeNames, type : NodeTypes, ports : SeqsUpTo(Ports, MaxPorts)]

Endpoints == [name : NodeNames, port : {NoPort} \cup 0..(MaxPorts - 1)]

Links == [source : Endpoints, destination : Endpoints]

\* ------------------------------------------------------- sequence helpers
RECURSIVE Flatten(_)
Flatten(ss) == IF ss = <<>> THEN <<>> ELSE Head(ss) \o Flatten(Tail(ss))

\* ----------------------------------------------------- command emitters
Cmd(op, a, b) == [ns |-> NoNs, op |-> op, a |-> a, b |-> b]

ip_netns_exec1(nsname, cmd) == [cmd EXCEPT !.ns = nsname]

ip_netns_exec(nsname, cmds) == [i \in 1..Len(cmds) |-> ip_netns_exec1(nsname, cmds[i])]

build_namespace(name) == << Cmd("ip netns add", name, "") >>

\* src_port or 0
PortOr0(port) == IF port = NoPort THEN 0 ELSE port

\* faulty variant: an omitted port is not read as 0
build_veth_no_default(source, destination) ==
    LET src      == source[1]
        dst      == destination[1]
        src_veth == "veth" \o src \o ToString(source[2])
        dst_veth == "veth" \o dst \o ToString(destination[2])
    IN  << Cmd("ip link add type veth peer name", src_veth, dst_veth),
           Cmd("ip link set netns", src_veth, src),
           Cmd("ip link set netns", dst_veth, dst),
           ip_netns_exec1(src, Cmd("ip link set up", src_veth, "")),
           ip_netns_exec1(dst, Cmd("ip link set up", dst_veth, "")) >>

build_veth(source, destination) ==
    LET src      == source[1]
        dst      == destination[1]
        src_port == PortOr0(source[2])
        dst_port == PortOr0(destination[2])
        src_veth == "veth" \o src \o ToString(src_port)
        dst_veth == "veth" \o dst \o ToString(dst_port)
    IN  << Cmd("ip link add type veth peer name", src_veth, dst_veth),
           Cmd("ip link set netns", src_veth, src),
           Cmd("ip link set netns", dst_veth, dst),
           ip_netns_exec1(src, Cmd("ip link set up", src_veth, "")),
           ip_netns_exec1(dst, Cmd("ip link set up", dst_veth, "")) >>

add_bridge(bridge_name) == << Cmd("ip link add type bridge", bridge_name, "") >>

bridge_veth(veth_name, bridge_name) ==
    << Cmd("ip link set master", "veth" \o veth_name, bridge_name) >>

veth_up(veth_name) == << Cmd("ip link set up", veth_name, "") >>

add_ip(veth_name, ip) == << Cmd("ip addr add dev", ip, veth_name) >>

add_route(network, next_hop) == << Cmd("ip route add via", network, next_hop) >>

masquerade(veth_name) == << Cmd("iptables -t nat -A POSTROUTING -o -j MASQUERADE", veth_name, "") >>

clean_ns(nsname) == << Cmd("ip netns del", nsname, "") >>

\* ---------------------------------------------------- results of a call
\* A call either returns a generator (the commands it will yield) or raises.
Ok(cmds)   == [raised |-> "", cmds |-> cmds]
Raise(exc) == [raised |-> exc, cmds |-> <<>>]

\* ------------------------------------------------------- node behaviours
\* A node object is [cls, name]; NoName is the default name=None argument.
NoName == ""

BaseNode_build_namespace(self) == build_namespace(self.name)

BaseNode_configure_veths(self, name, port) == <<>>

\* faulty variant: the default route is added whether or not a gateway is declared
BaseNode_configure_ip_always_route(self, port, ip_address, gateway, name) ==
    LET dev == IF name = NoName THEN "veth" \o self.name \o ToString(port) ELSE name
    IN  ip_netns_exec(self.name, add_ip(dev, ip_address))
        \o ip_netns_exec(self.name, add_route("default", gateway))

BaseNode_configure_ip(self, port, ip_address, gateway, name) ==
    LET dev == IF name = NoName THEN "veth" \o self.name \o ToString(port) ELSE name
    IN  ip_netns_exec(self.name, add_ip(dev, ip_address))
        \o (IF gateway # NoGateway
            THEN ip_netns_exec(self.name, add_route("default", gateway))
            ELSE <<>>)

BaseNode_configure_extra(self, node) == <<>>

Router_build_namespace(self) ==
    BaseNode_build_namespace(self)
    \o ip_netns_exec(self.name, add_bridge("br" \o self.name))
    \o ip_netns_exec(self.name, veth_up("br" \o self.name))

\* faulty variant: the endpoint's node name is not compared with this node's
Router_configure_veths_unfiltered(self, name, port) ==
    IF PortOr0(port) = 0
    THEN BaseNode_configure_veths(self, name, PortOr0(port))
    ELSE BaseNode_configure_veths(self, name, PortOr0(port))
         \o ip_netns_exec(self.name,
                bridge_veth(self.name \o ToString(PortOr0(port)), "br" \o self.name))

Router_configure_veths(self, name, port) ==
    IF name # self.name
    THEN BaseNode_configure_veths(self, name, port)
    ELSE IF PortOr0(port) = 0
    THEN BaseNode_configure_veths(self, name, PortOr0(port))
    ELSE BaseNode_configure_veths(self, name, PortOr0(port))
         \o ip_netns_exec(self.name,
                bridge_veth(self.name \o ToString(PortOr0(port)), "br" \o self.name))

\* faulty variant: the router addresses the veth of every port
Router_configure_ip_direct(self, port, ip_address, gateway) ==
    BaseNode_configure_ip(self, port, ip_address, gateway, NoName)

Router_configure_ip(self, port, ip_address, gateway) ==
    IF port = 0
    THEN BaseNode_configure_ip(self, port, ip_address, gateway, NoName)
    ELSE BaseNode_configure_ip(self, port, ip_address, gateway, "br" \o self.name)

\* the indices i (0-based) of the ports with a true 'masquerade', in order
RECURSIVE MasqueradePorts(_, _)
MasqueradePorts(ports, i) ==
    IF i >= Len(ports) THEN <<>>
    ELSE (IF ports[i + 1].masquerade THEN <<i>> ELSE <<>>) \o MasqueradePorts(ports, i + 1)

\* ip_netns_exec(name, *args): the function takes exactly (nsname, cmds)
ip_netns_exec_star(nsname, args) ==
    IF Len(args) = 1 THEN Ok(ip_netns_exec(nsname, args[1])) ELSE Raise("TypeError")

Router_configure_extra(self, node) ==
    LET name  == node.name
        ports == node.ports
        idx   == MasqueradePorts(ports, 0)
        args  == [k \in 1..Len(idx) |-> masquerade("veth" \o name \o ToString(idx[k]))]
        r     == ip_netns_exec_star(name, args)
    IN  IF r.raised # "" THEN r
        ELSE Ok(BaseNode_configure_extra(self, node) \o r.cmds)

\* type_map.get(type, BaseNode)
type_map_get(type) == IF type = "router" THEN "Router" ELSE "BaseNode"

\* method dispatch on the node object's class
\* faulty variant: every node gets a bridge
Node_build_namespace_any_class(self) == Router_build_namespace(self)

Node_build_namespace(self) ==
    IF self.cls = "Router" THEN Router_build_namespace(self)
    ELSE BaseNode_build_namespace(self)

Node_configure_veths(self, name, port) ==
    IF self.cls = "Router" THEN Router_configure_veths(self, name, port)
    ELSE BaseNode_configure_veths(self, name, port)

Node_configure_ip(self, port, ip_address, gateway) ==
    IF self.cls = "Router" THEN Router_configure_ip(self, port, ip_address, gateway)
    ELSE BaseNode_configure_ip(self, port, ip_address, gateway, NoName)

\* faulty variant: every node masquerades its flagged ports
Node_configure_extra_any_class(self, node) == Router_configure_extra(self, node)

Node_configure_extra(self, node) ==
    IF self.cls = "Router" THEN Router_configure_extra(self, node)
    ELSE Ok(BaseNode_configure_extra(self, node))

\* ------------------------------------------------------------ the compiler
VARIABLES topology, init, script, cleanup_script, pc, err

\* the state of one DHCPServer object and of the processes it has launched
VARIABLES self_p, self_files, procs, returned

dhcp_vars == <<self_p, self_files, procs, returned>>

main_vars == <<topology, init, script, cleanup_script, pc, err>>

vars == <<topology, init, script, cleanup_script, pc, err,
          self_p, self_files, procs, returned>>

\* ---------------------------------------------------------------------------
\* class DHCPServer

MaxStarts == 3

\* self.p = None
None == 0

\* self.files = [NamedTemporaryFile('w+') for _ in range(3)]: the configuration
\* file, the lease file and the pid file
TempFiles == {"config", "lease_file", "pid_file"}

ProcIdx == 1..Len(procs)

\* __init__: no process, the three temporary files created and held open
DHCPServer_init ==
    /\ self_p = None
    /\ self_files = TempFiles
    /\ procs = <<>>
    /\ returned = "__init__"

\* start(): self.p = subprocess.Popen(...), whatever self.p was
DHCPServer_start ==
    /\ self_files # {}
    /\ Len(procs) < MaxStarts
    /\ procs' = Append(procs, "running")
    /\ self_p' = Len(procs) + 1
    /\ returned' = "start"
    /\ UNCHANGED <<self_files, main_vars>>

\* start(): Popen raises before self.p is assigned
DHCPServer_start_raise ==
    /\ self_files # {}
    /\ returned' = "start: OSError"
    /\ UNCHANGED <<self_p, self_files, procs, main_vars>>

\* stop(): if self.p is false, nothing is done
DHCPServer_stop_none ==
    /\ self_files # {}
    /\ self_p = None
    /\ returned' = "stop"
    /\ UNCHANGED <<self_p, self_files, procs, main_vars>>

\* stop(): terminate(); wait(5) returns; self.p = None
DHCPServer_stop ==
    /\ self_files # {}
    /\ self_p # None
    /\ procs' = [procs EXCEPT ![self_p] = "exited"]
    /\ self_p' = None
    /\ returned' = "stop"
    /\ UNCHANGED <<self_files, main_vars>>

\* stop(): terminate(); wait(5) raises TimeoutExpired: self.p stays assigned
DHCPServer_stop_timeout ==
    /\ self_files # {}
    /\ self_p # None
    /\ procs[self_p] # "exited"
    /\ procs' = [procs EXCEPT ![self_p] = "terminating"]
    /\ returned' = "stop: TimeoutExpired"
    /\ UNCHANGED <<self_p, self_files, main_vars>>

\* a launched process ends by itself
ProcessExits ==
    /\ \E i \in ProcIdx :
          /\ procs[i] # "exited"
          /\ procs' = [procs EXCEPT ![i] = "exited"]
    /\ UNCHANGED <<self_p, self_files, returned, main_vars>>

\* the server object is reclaimed: each NamedTemporaryFile is closed and its
\* file removed; the launched processes are left as they are
DHCPServer_del ==
    /\ self_files # {}
    /\ self_files' = {}
    /\ returned' = "del"
    /\ UNCHANGED <<self_p, procs, main_vars>>

\* ---------------------------------------------------------------------------
\* main()

NodeCount(topo) == Len(topo.nodes)
LinkCount(topo) == Len(topo.links)

\* *(node['init'].build_namespace() for node in topology['nodes'])
NamespaceCalls(topo, objs) ==
    [i \in 1..NodeCount(topo) |-> Ok(Node_build_namespace(objs[i]))]

\* *(build_veth((source name, source port), (destination name, destination port)) ...)
VethCalls(topo, objs) ==
    [k \in 1..LinkCount(topo) |->
        Ok(build_veth(<<topo.links[k].source.name, topo.links[k].source.port>>,
                      <<topo.links[k].destination.name, topo.links[k].destination.port>>))]

\* for link in topology['links'] for node in topology['nodes']
SourceCalls(topo, objs) ==
    [j \in 1..(LinkCount(topo) * NodeCount(topo)) |->
        LET k == ((j - 1) \div NodeCount(topo)) + 1
            i == ((j - 1) % NodeCount(topo)) + 1
        IN  Ok(Node_configure_veths(objs[i], topo.links[k].source.name,
                                    topo.links[k].source.port))]

DestinationCalls(topo, objs) ==
    [j \in 1..(LinkCount(topo) * NodeCount(topo)) |->
        LET k == ((j - 1) \div NodeCount(topo)) + 1
            i == ((j - 1) % NodeCount(topo)) + 1
        IN  Ok(Node_configure_veths(objs[i], topo.links[k].destination.name,
                                    topo.links[k].destination.port))]

\* for node in topology['nodes'] for i, port in enumerate(node['ports'])
AddressCalls(topo, objs) ==
    Flatten([i \in 1..NodeCount(topo) |->
        [p \in 1..Len(topo.nodes[i].ports) |->
            LET port == topo.nodes[i].ports[p]
            IN  IF port.ip_address = NoAddress THEN Raise("KeyError: 'ip_address'")
                ELSE Ok(Node_configure_ip(objs[i], p - 1, port.ip_address, port.gateway))]])

\* *(node['init'].configure_extra(node) for node in topology['nodes'])
ExtraCalls(topo, objs) ==
    [i \in 1..NodeCount(topo) |-> Node_configure_extra(objs[i], topo.nodes[i])]

\* faulty variant: the addressing phase moved before the link phase
SetupCalls_addresses_first(topo, objs) ==
    NamespaceCalls(topo, objs) \o AddressCalls(topo, objs)
    \o VethCalls(topo, objs)
    \o SourceCalls(topo, objs) \o DestinationCalls(topo, objs)
    \o ExtraCalls(topo, objs)

\* the argument list of the setup gen(...) call, in evaluation order
SetupCalls(topo, objs) ==
    NamespaceCalls(topo, objs) \o VethCalls(topo, objs)
    \o SourceCalls(topo, objs) \o DestinationCalls(topo, objs)
    \o AddressCalls(topo, objs) \o ExtraCalls(topo, objs)

\* *(clean_ns(node['name']) for node in topology['nodes'])
CleanupCalls(topo) ==
    [i \in 1..NodeCount(topo) |-> Ok(clean_ns(topo.nodes[i].name))]

Raised(calls) == {j \in 1..Len(calls) : calls[j].raised # ""}

FirstRaised(calls) ==
    calls[CHOOSE j \in Raised(calls) : \A h \in Raised(calls) : j <= h].raised

\* for generator in generators: for cmd in generator: script.append(cmd)
generate_script(scr, calls) == scr \o Flatten([j \in 1..Len(calls) |-> calls[j].cmds])

\* nodes whose 'type' key is absent: node['type'] raises KeyError
Untyped(topo) == {i \in 1..NodeCount(topo) : topo.nodes[i].type = NoType}

NodeObject(node) == [cls |-> type_map_get(node.type), name |-> node.name]

\* for node in topology['nodes']: node['init'] = type_map.get(node['type'], BaseNode)(node['name'])
InitNodes ==
    /\ pc = "start"
    /\ Untyped(topology) = {}
    /\ init' = [i \in 1..NodeCount(topology) |-> NodeObject(topology.nodes[i])]
    /\ pc' = "initialized"
    /\ UNCHANGED <<topology, script, cleanup_script, err, dhcp_vars>>

InitNodesRaise ==
    /\ pc = "start"
    /\ Untyped(topology) # {}
    /\ LET first == CHOOSE i \in Untyped(topology) : \A h \in Untyped(topology) : i <= h
       IN  init' = [i \in 1..(first - 1) |-> NodeObject(topology.nodes[i])]
    /\ pc' = "aborted"
    /\ err' = "KeyError: 'type'"
    /\ UNCHANGED <<topology, script, cleanup_script, dhcp_vars>>

\* script = []; gen(...): every argument is evaluated before generate_script runs
GenerateSetup ==
    /\ pc = "initialized"
    /\ Raised(SetupCalls(topology, init)) = {}
    /\ script' = generate_script(<<>>, SetupCalls(topology, init))
    /\ pc' = "setup"
    /\ UNCHANGED <<topology, init, cleanup_script, err, dhcp_vars>>

\* faulty variant: the generators before the failing argument are drained
GenerateSetupRaise_partial ==
    /\ pc = "initialized"
    /\ Raised(SetupCalls(topology, init)) # {}
    /\ LET calls == SetupCalls(topology, init)
           first == CHOOSE j \in Raised(calls) : \A h \in Raised(calls) : j <= h
       IN  script' = generate_script(<<>>, SubSeq(calls, 1, first - 1))
    /\ err' = FirstRaised(SetupCalls(topology, init))
    /\ pc' = "aborted"
    /\ UNCHANGED <<topology, init, cleanup_script, dhcp_vars>>

GenerateSetupRaise ==
    /\ pc = "initialized"
    /\ Raised(SetupCalls(topology, init)) # {}
    /\ script' = <<>>
    /\ err' = FirstRaised(SetupCalls(topology, init))
    /\ pc' = "aborted"
    /\ UNCHANGED <<topology, init, cleanup_script, dhcp_vars>>

\* cleanup_script = []; gen(*(clean_ns(node['name']) ...))
GenerateCleanup ==
    /\ pc = "setup"
    /\ cleanup_script' = generate_script(<<>>, CleanupCalls(topology))
    /\ pc' = "cleanup"
    /\ UNCHANGED <<topology, init, script, err, dhcp_vars>>

\* write_script(script_filename, script); write_script(cleanup_script_filename, ...)
WriteScripts ==
    /\ pc = "cleanup"
    /\ pc' = "done"
    /\ UNCHANGED <<topology, init, script, cleanup_script, err, dhcp_vars>>

\* ------------------------------------------------------- the input family
\* Node names matter only up to equality: node i is named with one of the
\* first i names, so the first node is always "a".
NameList == <<"a", "b", "c">>

RECURSIVE NodeSeqs(_, _)
NodeSeqs(n, nodeSet) ==
    IF n = 0 THEN {<<>>}
    ELSE NodeSeqs(n - 1, nodeSet)
         \cup {Append(s, x) : s \in {t \in NodeSeqs(n - 1, nodeSet) : Len(t) = n - 1},
                              x \in {y \in nodeSet : \E j \in 1..n : y.name = NameList[j]}}

\* the node shapes of the example scenario: a router with a plain port 0 and
\* a masquerading port 1, a host with one port and a gateway
ExampleRouterPorts ==
    << [ip_address |-> "10.0.0.1/24", gateway |-> NoGateway, masquerade |-> FALSE],
       [ip_address |-> "10.0.0.1/24", gateway |-> NoGateway, masquerade |-> TRUE] >>
ExampleHostPorts ==
    << [ip_address |-> "10.0.0.1/24", gateway |-> "10.0.0.254", masquerade |-> FALSE] >>
ExampleNodes ==
    [name : NodeNames, type : {"router"}, ports : {ExampleRouterPorts}]
    \cup [name : NodeNames, type : {"host"}, ports : {ExampleHostPorts}]

\* every port list without links; every link list over the example nodes
Topologies ==
    [nodes : NodeSeqs(MaxNodes, Nodes), links : {<<>>}]
    \cup [nodes : NodeSeqs(MaxNodes, ExampleNodes), links : SeqsUpTo(Links, MaxLinks)]

Init ==
    /\ topology \in Topologies
    /\ init = <<>>
    /\ script = <<>>
    /\ cleanup_script = <<>>
    /\ pc = "start"
    /\ err = ""
    /\ DHCPServer_init

Next ==
    \/ InitNodes
    \/ InitNodesRaise
    \/ GenerateSetup
    \/ GenerateSetupRaise
    \/ GenerateCleanup
    \/ WriteScripts

Spec == Init /\ [][Next]_vars

\* a DHCPServer object on its own: main() never runs
InitDHCP ==
    /\ DHCPServer_init
    /\ topology = [nodes |-> <<>>, links |-> <<>>]
    /\ init = <<>>
    /\ script = <<>>
    /\ cleanup_script = <<>>
    /\ pc = "start"
    /\ err = ""

NextDHCP ==
    \/ DHCPServer_start
    \/ DHCPServer_start_raise
    \/ DHCPServer_stop_none
    \/ DHCPServer_stop
    \/ DHCPServer_stop_timeout
    \/ ProcessExits
    \/ DHCPServer_del

SpecDHCP == InitDHCP /\ [][NextDHCP]_vars

\* ======================================================== the properties
\* Vocabulary of the operation sequence (spec sections 4.1 and 6).
Compiled == pc \in {"setup", "cleanup", "done"}
Finished == pc \in {"done", "aborted"}

Nodes_ == topology.nodes
Links_ == topology.links
NodeIdx == 1..Len(Nodes_)
LinkIdx == 1..Len(Links_)
ScriptIdx == 1..Len(script)

VethName(name, port) == "veth" \o name \o ToString(PortOr0(port))
BridgeName(name) == "br" \o name
BridgeNames == {BridgeName(n) : n \in NodeNames}

IsCreateNamespace(c) == c.op = "ip netns add"
IsCreateBridge(c)    == c.op = "ip link add type bridge"
IsBridgeUp(c)        == c.op = "ip link set up" /\ c.a \in BridgeNames
IsCreateVethPair(c)  == c.op = "ip link add type veth peer name"
IsMoveVeth(c)        == c.op = "ip link set netns"
IsVethUp(c)          == c.op = "ip link set up" /\ c.a \notin BridgeNames
IsAttach(c)          == c.op = "ip link set master"
IsAssignAddress(c)   == c.op = "ip addr add dev"
IsAddRoute(c)        == c.op = "ip route add via"
IsMasquerade(c)      == c.op = "iptables -t nat -A POSTROUTING -o -j MASQUERADE"
IsDeleteNamespace(c) == c.op = "ip netns del"

\* the phase of section 4.4 a command belongs to (3 stands for 3 and 4)
PhaseOf(c) ==
    CASE IsCreateNamespace(c) \/ IsCreateBridge(c) \/ IsBridgeUp(c) -> 1
      [] IsCreateVethPair(c) \/ IsMoveVeth(c) \/ IsVethUp(c)        -> 2
      [] IsAttach(c)                                                -> 3
      [] IsAssignAddress(c) \/ IsAddRoute(c)                        -> 5
      [] IsMasquerade(c)                                            -> 6
      [] OTHER                                                      -> 0

IsRouter(i) == Nodes_[i].type = "router"

\* the attachments one side of the links asks for: link order, then node order
EndpointOf(k, side) == IF side = "source" THEN Links_[k].source ELSE Links_[k].destination

ExpectedAttach(side) ==
    Flatten([k \in LinkIdx |-> Flatten([i \in NodeIdx |->
        IF /\ IsRouter(i)
           /\ EndpointOf(k, side).name = Nodes_[i].name
           /\ PortOr0(EndpointOf(k, side).port) # 0
        THEN << [ns |-> Nodes_[i].name, op |-> "ip link set master",
                 a |-> VethName(Nodes_[i].name, EndpointOf(k, side).port),
                 b |-> BridgeName(Nodes_[i].name)] >>
        ELSE <<>>])])

\* the device section 4.3 addresses for port p (0-based) of node i
AddressedDevice(i, p) ==
    IF IsRouter(i) /\ p # 0 THEN BridgeName(Nodes_[i].name) ELSE VethName(Nodes_[i].name, p)

\* (node, port) pairs in declared order
PortPairs == Flatten([i \in NodeIdx |-> [p \in 1..Len(Nodes_[i].ports) |-> <<i, p - 1>>]])

\* C1: the setup sequence is the six phases in order, none interleaved, and
\* inside each phase the nodes, links and ports are taken in declared order:
\* namespaces by node, veth pairs by link, source-side attachments before
\* destination-side ones, addresses by node then port, masquerade by node.
C1_PhasesInOrder ==
    /\ \A i, j \in ScriptIdx : i < j => PhaseOf(script[i]) <= PhaseOf(script[j])
    /\ \A i \in ScriptIdx : PhaseOf(script[i]) # 0
    /\ Compiled =>
        /\ LET created == SelectSeq(script, IsCreateNamespace)
           IN  [i \in 1..Len(created) |-> created[i].a] = [i \in NodeIdx |-> Nodes_[i].name]
        /\ LET pairs == SelectSeq(script, IsCreateVethPair)
           IN  [k \in 1..Len(pairs) |-> <<pairs[k].a, pairs[k].b>>]
               = [k \in LinkIdx |->
                    <<VethName(Links_[k].source.name, Links_[k].source.port),
                      VethName(Links_[k].destination.name, Links_[k].destination.port)>>]
        /\ SelectSeq(script, IsAttach) = ExpectedAttach("source") \o ExpectedAttach("destination")
        /\ LET assigned == SelectSeq(script, IsAssignAddress)
           IN  [k \in 1..Len(assigned) |-> <<assigned[k].ns, assigned[k].b>>]
               = [k \in 1..Len(PortPairs) |->
                    <<Nodes_[PortPairs[k][1]].name,
                      AddressedDevice(PortPairs[k][1], PortPairs[k][2])>>]
        /\ LET masq == SelectSeq(script, IsMasquerade)
               routers == SelectSeq([i \in NodeIdx |-> i], IsRouter)
           IN  [k \in 1..Len(masq) |-> masq[k].ns]
               = [k \in 1..Len(routers) |-> Nodes_[routers[k]].name]

\* C1 witness: a written script of two nodes and two links that has commands
\* of every phase, attachments of both sides included.
C1_Witness ==
    /\ pc = "done"
    /\ Len(Nodes_) = 2 /\ Len(Links_) = 2
    /\ \A ph \in {1, 2, 3, 5, 6} : \E i \in ScriptIdx : PhaseOf(script[i]) = ph
    /\ ExpectedAttach("source") # <<>> /\ ExpectedAttach("destination") # <<>>
    /\ Nodes_[1].name # Nodes_[2].name
    /\ Links_[1] # Links_[2]

\* the devices a command names, and the namespaces it needs
DevicesOf(c) ==
    CASE IsCreateVethPair(c) -> {c.a, c.b}
      [] IsMoveVeth(c)       -> {c.a}
      [] IsVethUp(c)         -> {c.a}
      [] IsAttach(c)         -> {c.a, c.b}
      [] IsAssignAddress(c)  -> {c.b}
      [] IsMasquerade(c)     -> {c.a}
      [] OTHER               -> {}

Owners(dev) ==
    {n \in NodeNames : dev = BridgeName(n) \/ \E p \in 0..MaxPorts : dev = VethName(n, p)}

NamespacesOf(c) ==
    UNION {Owners(d) : d \in DevicesOf(c)} \cup (IF IsMoveVeth(c) THEN {c.b} ELSE {})

CreatedBefore(j, n) ==
    \E i \in 1..(j - 1) : IsCreateNamespace(script[i]) /\ script[i].a = n

\* C2: every command of phases 2-6 that names a device of node N, or moves a
\* veth into namespace N, comes after the create-namespace command of N.
C2_NamespaceCreatedFirst ==
    \A j \in ScriptIdx :
        PhaseOf(script[j]) >= 2 => \A n \in NamespacesOf(script[j]) : CreatedBefore(j, n)

VethCreatedBefore(j, dev) ==
    \E i \in 1..(j - 1) : IsCreateVethPair(script[i]) /\ dev \in {script[i].a, script[i].b}

\* the device some link endpoint resolves to
Linked(dev) ==
    \E k \in LinkIdx :
        \/ dev = VethName(Links_[k].source.name, Links_[k].source.port)
        \/ dev = VethName(Links_[k].destination.name, Links_[k].destination.port)

\* C3 as stated: a veth is created by a create-veth-pair command before any
\* command attaches it to a bridge or assigns an address to it.
C3_VethCreatedBeforeUse ==
    \A j \in ScriptIdx :
        /\ IsAttach(script[j]) => VethCreatedBefore(j, script[j].a)
        /\ (IsAssignAddress(script[j]) /\ script[j].b \notin BridgeNames)
              => VethCreatedBefore(j, script[j].b)

\* C3 amended: a veth is created before any command attaches it to a bridge;
\* an address is assigned to veth<node><port> after every create-veth-pair
\* command that creates it, and after at least one when a link names that
\* port; the port of no link is addressed although nothing creates its veth.
C3_LinkedVethCreatedBeforeUse ==
    \A j \in ScriptIdx :
        /\ IsAttach(script[j]) => VethCreatedBefore(j, script[j].a)
        /\ (IsAssignAddress(script[j]) /\ script[j].b \notin BridgeNames) =>
              /\ Linked(script[j].b) => VethCreatedBefore(j, script[j].b)
              /\ \A i \in ScriptIdx :
                    (IsCreateVethPair(script[i]) /\ script[j].b \in {script[i].a, script[i].b})
                        => i < j

\* C3 witness: a written script that attaches a veth, addresses a veth some
\* link created and addresses a veth no link created.
C3_Witness ==
    /\ pc = "done"
    /\ \E j \in ScriptIdx : IsAttach(script[j])
    /\ \E j \in ScriptIdx :
          IsAssignAddress(script[j]) /\ script[j].b \notin BridgeNames /\ Linked(script[j].b)
    /\ \E j \in ScriptIdx :
          IsAssignAddress(script[j]) /\ script[j].b \notin BridgeNames /\ ~Linked(script[j].b)

\* C4: the k-th assign-address command belongs to the k-th declared port; for
\* a router it targets br<R> when the port index is not 0, never veth<R><port>,
\* and veth<R>0 when the index is 0.
C4_RouterAddressesBridge ==
    Compiled =>
        LET assigned == SelectSeq(script, IsAssignAddress)
        IN  /\ Len(assigned) = Len(PortPairs)
            /\ \A k \in 1..Len(PortPairs) :
                  LET i == PortPairs[k][1]
                      p == PortPairs[k][2]
                  IN  IsRouter(i) =>
                        /\ assigned[k].ns = Nodes_[i].name
                        /\ p = 0 => assigned[k].b = VethName(Nodes_[i].name, 0)
                        /\ p # 0 => /\ assigned[k].b = BridgeName(Nodes_[i].name)
                                    /\ assigned[k].b # VethName(Nodes_[i].name, p)

\* C4 witness: a compiled router with a port 0 and a port 1.
C4_Witness ==
    /\ Compiled
    /\ \E i \in NodeIdx : IsRouter(i) /\ Len(Nodes_[i].ports) >= 2

\* C5: when compilation ends, the cleanup sequence has one delete-namespace
\* command per declared node, in node order, and no namespace name twice.
C5_CleanupOnePerNode ==
    Finished =>
        /\ cleanup_script = [i \in NodeIdx |-> Cmd("ip netns del", Nodes_[i].name, "")]
        /\ \A i, j \in 1..Len(cleanup_script) :
              i # j => cleanup_script[i].a # cleanup_script[j].a

\* the topology has every key the compiler reads
Complete ==
    /\ \A i \in NodeIdx : Nodes_[i].type # NoType
    /\ \A i \in NodeIdx : \A p \in 1..Len(Nodes_[i].ports) :
          Nodes_[i].ports[p].ip_address # NoAddress

Flagged(i) == {p \in 0..(Len(Nodes_[i].ports) - 1) : Nodes_[i].ports[p + 1].masquerade}

MasqueradeCmd(name, p) ==
    [ns |-> name, op |-> "iptables -t nat -A POSTROUTING -o -j MASQUERADE",
     a |-> VethName(name, p), b |-> ""]

\* C6: when compilation of a complete topology ends, the setup sequence has an
\* enable-masquerade command on veth<name><i> for every flagged port i of
\* every router, however many ports are flagged.
C6_MasqueradeForEveryFlaggedPort ==
    (Finished /\ Complete) =>
        \A i \in NodeIdx : IsRouter(i) =>
            \A p \in Flagged(i) :
                \E j \in ScriptIdx : script[j] = MasqueradeCmd(Nodes_[i].name, p)

\* flagged ports of node i in port order
RECURSIVE FlaggedSeq(_, _)
FlaggedSeq(i, p) ==
    IF p >= Len(Nodes_[i].ports) THEN <<>>
    ELSE (IF p \in Flagged(i) THEN <<p>> ELSE <<>>) \o FlaggedSeq(i, p + 1)

\* C7: the enable-masquerade commands of the setup sequence are exactly those
\* of the flagged ports of router nodes; a flagged port of a host or cloud
\* node gets none.
C7_MasqueradeOnlyOnRouters ==
    SelectSeq(script, IsMasquerade)
      = (IF Compiled
         THEN Flatten([i \in NodeIdx |->
                IF IsRouter(i)
                THEN [k \in 1..Len(FlaggedSeq(i, 0)) |->
                        MasqueradeCmd(Nodes_[i].name, FlaggedSeq(i, 0)[k])]
                ELSE <<>>])
         ELSE <<>>)

\* C7 witness: a compiled topology with a masquerading router and a host or
\* cloud node that has a flagged port.
C7_Witness ==
    /\ Compiled
    /\ \E j \in ScriptIdx : IsMasquerade(script[j])
    /\ \E i \in NodeIdx : Nodes_[i].type \in {"host", "cloud"} /\ Flagged(i) # {}

DeclaredNames == {Nodes_[i].name : i \in NodeIdx}

Dangling ==
    \E k \in LinkIdx :
        Links_[k].source.name \notin DeclaredNames \/ Links_[k].destination.name \notin DeclaredNames

\* the data-model invariants of section 3
ValidTopology ==
    /\ Complete
    /\ \A i, j \in NodeIdx : i # j => Nodes_[i].name # Nodes_[j].name
    /\ ~Dangling
    /\ \A k \in LinkIdx :
          <<Links_[k].source.name, PortOr0(Links_[k].source.port)>>
            # <<Links_[k].destination.name, PortOr0(Links_[k].destination.port)>>

\* C8: compilation of a topology that satisfies the data-model invariants never
\* aborts.
C8_ValidTopologyCompiles == ValidTopology => pc # "aborted"

\* the topology with every type that is not in type_map declared "host"
HostTopology ==
    [topology EXCEPT !.nodes =
        [i \in NodeIdx |->
            IF Nodes_[i].type = "router" THEN Nodes_[i]
            ELSE [Nodes_[i] EXCEPT !.type = "host"]]]

\* C9: a node with no type or an unknown type does not abort compilation and
\* compiles to the commands of the same node declared as a host.
C9_UnknownTypeCompilesAsHost ==
    /\ ~(pc = "aborted" /\ err = "KeyError: 'type'")
    /\ Compiled =>
          script = generate_script(<<>>,
                      SetupCalls(HostTopology,
                                 [i \in NodeIdx |-> NodeObject(HostTopology.nodes[i])]))

\* C10: a topology with a link endpoint that names no declared node never gets
\* a command compiled.
C10_DanglingLinkRejected == Dangling => (script = <<>> /\ ~Compiled)

DuplicateNames == \E i, j \in NodeIdx : i # j /\ Nodes_[i].name = Nodes_[j].name

\* C11: a topology with two nodes of the same name never gets a command
\* compiled, and no setup sequence creates the same namespace twice.
C11_DuplicateNamesRejected ==
    /\ DuplicateNames => (script = <<>> /\ ~Compiled)
    /\ \A i, j \in ScriptIdx :
          (i # j /\ IsCreateNamespace(script[i]) /\ IsCreateNamespace(script[j]))
              => script[i].a # script[j].a

\* C12: when compilation has aborted, neither sequence holds a command.
C12_AbortLeavesNothing ==
    pc = "aborted" => (script = <<>> /\ cleanup_script = <<>>)

\* C12 witness: compilation aborted while the arguments after the namespace
\* and link generators were evaluated, in a topology with a node and a link.
C12_Witness ==
    /\ pc = "aborted"
    /\ err \in {"TypeError", "KeyError: 'ip_address'"}
    /\ Len(Nodes_) >= 1

\* C13: no create-veth-pair command names one device for both of its ends.
C13_VethEndsDistinct ==
    \A j \in ScriptIdx : IsCreateVethPair(script[j]) => script[j].a # script[j].b

\* the topology with every omitted endpoint port written as 0
WithPort0(ep) == IF ep.port = NoPort THEN [ep EXCEPT !.port = 0] ELSE ep

Port0Topology ==
    [topology EXCEPT !.links =
        [k \in LinkIdx |-> [source      |-> WithPort0(Links_[k].source),
                            destination |-> WithPort0(Links_[k].destination)]]]

OmitsPort ==
    \E k \in LinkIdx : Links_[k].source.port = NoPort \/ Links_[k].destination.port = NoPort

\* C14: the setup sequence of a topology is the setup sequence of the same
\* topology with port 0 written at every endpoint that omits its port, and a
\* compilation that aborts in the setup phases aborts with the same error there.
C14_OmittedPortIsPort0 ==
    /\ Compiled => /\ Raised(SetupCalls(Port0Topology, init)) = {}
                   /\ script = generate_script(<<>>, SetupCalls(Port0Topology, init))
    /\ (pc = "aborted" /\ err # "KeyError: 'type'")
          => /\ Raised(SetupCalls(Port0Topology, init)) # {}
             /\ err = FirstRaised(SetupCalls(Port0Topology, init))

\* C14 witness: a compiled topology where a link endpoint on a router omits
\* its port.
C14_Witness ==
    /\ Compiled
    /\ \E k \in LinkIdx : \E i \in NodeIdx :
          /\ IsRouter(i)
          /\ \/ (Links_[k].source.name = Nodes_[i].name /\ Links_[k].source.port = NoPort)
             \/ (Links_[k].destination.name = Nodes_[i].name
                 /\ Links_[k].destination.port = NoPort)

\* the attachments one side of the links asks for, one per endpoint that
\* names a router with a port other than 0
AttachOnce(side) ==
    Flatten([k \in LinkIdx |->
        IF /\ \E i \in NodeIdx : IsRouter(i) /\ EndpointOf(k, side).name = Nodes_[i].name
           /\ PortOr0(EndpointOf(k, side).port) # 0
        THEN << [ns |-> EndpointOf(k, side).name, op |-> "ip link set master",
                 a |-> VethName(EndpointOf(k, side).name, EndpointOf(k, side).port),
                 b |-> BridgeName(EndpointOf(k, side).name)] >>
        ELSE <<>>])

\* C16: the attach-to-bridge commands are one per link endpoint that names a
\* router R with port p # 0 (veth<R><p> to br<R> inside R), and no others.
C16_AttachOncePerEndpoint ==
    Compiled => SelectSeq(script, IsAttach) = AttachOnce("source") \o AttachOnce("destination")

IsAddressing(c) == IsAssignAddress(c) \/ IsAddRoute(c)

\* the commands of the addressing phase for the port pair <<i, p>>
ExpectedAddressing(pair) ==
    LET i    == pair[1]
        p    == pair[2]
        port == Nodes_[i].ports[p + 1]
    IN  << [ns |-> Nodes_[i].name, op |-> "ip addr add dev",
            a |-> port.ip_address, b |-> AddressedDevice(i, p)] >>
        \o (IF port.gateway # NoGateway
            THEN << [ns |-> Nodes_[i].name, op |-> "ip route add via",
                     a |-> "default", b |-> port.gateway] >>
            ELSE <<>>)

\* C17: the addressing phase is, for every declared port in node order then
\* port order, one assign-address command for that port, followed at once by a
\* default route via its gateway exactly when the port declares one.
C17_OneAddressPerPort ==
    Compiled =>
        SelectSeq(script, IsAddressing)
          = Flatten([k \in 1..Len(PortPairs) |-> ExpectedAddressing(PortPairs[k])])

\* C17 witness: a compiled node with two ports, one with and one without a
\* gateway, and no link.
C17_Witness ==
    /\ Compiled
    /\ Links_ = <<>>
    /\ \E i \in NodeIdx :
          /\ Len(Nodes_[i].ports) = 2
          /\ Nodes_[i].ports[1].gateway # NoGateway
          /\ Nodes_[i].ports[2].gateway = NoGateway

IsNamespacePhase(c) == PhaseOf(c) = 1

BridgeCreatedBefore(j, br) ==
    \E i \in 1..(j - 1) : IsCreateBridge(script[i]) /\ script[i].a = br

\* C18: the namespace phase is, node by node, create-namespace followed for a
\* router (and only for a router) by the creation of br<R> and its link-up;
\* every command that attaches a veth to a bridge or addresses a bridge comes
\* after the command that creates that bridge.
C18_BridgeWithRouterNamespace ==
    /\ Compiled =>
          SelectSeq(script, IsNamespacePhase)
            = Flatten([i \in NodeIdx |->
                << Cmd("ip netns add", Nodes_[i].name, "") >>
                \o (IF IsRouter(i)
                    THEN << [ns |-> Nodes_[i].name, op |-> "ip link add type bridge",
                             a |-> BridgeName(Nodes_[i].name), b |-> ""],
                            [ns |-> Nodes_[i].name, op |-> "ip link set up",
                             a |-> BridgeName(Nodes_[i].name), b |-> ""] >>
                    ELSE <<>>)])
    /\ \A j \in ScriptIdx :
          /\ IsAttach(script[j]) => BridgeCreatedBefore(j, script[j].b)
          /\ (IsAssignAddress(script[j]) /\ script[j].b \in BridgeNames)
                => BridgeCreatedBefore(j, script[j].b)

\* C18 witness: a compiled router and non-router, with a veth attached to the
\* router's bridge and an address on that bridge.
C18_Witness ==
    /\ Compiled
    /\ \E i \in NodeIdx : IsRouter(i)
    /\ \E i \in NodeIdx : ~IsRouter(i)
    /\ \E j \in ScriptIdx : IsAttach(script[j])
    /\ \E j \in ScriptIdx : IsAssignAddress(script[j]) /\ script[j].b \in BridgeNames

\* how many create-veth-pair ends create the device
Creations(dev) ==
    Cardinality({j \in ScriptIdx : IsCreateVethPair(script[j]) /\ script[j].a = dev})
    + Cardinality({j \in ScriptIdx : IsCreateVethPair(script[j]) /\ script[j].b = dev})

VethNames == {VethName(n, p) : n \in NodeNames, p \in 0..MaxPorts}

\* C19: every veth device is created by at most one end of one
\* create-veth-pair command.
C19_VethCreatedOnce == \A dev \in VethNames : Creations(dev) <= 1

StopCalled == returned \in {"stop", "stop: TimeoutExpired"}

\* C15: after stop(), whether it returned or raised on the timeout, none of the
\* three temporary files is still held and no process is tracked.
C15_StopReleasesEverything == StopCalled => (self_files = {} /\ self_p = None)

\* C20: when the last call is a stop() that returned normally, no process the
\* server launched is still running.
C20_StopLeavesNoProcess ==
    returned = "stop" => \A i \in ProcIdx : procs[i] = "exited"

====
